---- MODULE Spec2Model ----
(***************************************************************************)
(* Model of coreml-conversion/distilbert-convert.py: the linear procedure  *)
(* convert(conversion_type, model_path, saved_name) and its helper         *)
(* convert_to_coreml(model_path).  Every statement of the two functions is *)
(* one action; every external call either returns or raises.  Strings that *)
(* the script builds (paths) are sequences of one-character strings.       *)
(***************************************************************************)
EXTENDS Integers, Sequences, FiniteSets, TLC

\* ------------------------------------------------------------------ bounds
\* longest saved_name drawn from Alphabet (the script's own "Punctuate" is
\* always included as well)
MaxNameLen == 2

\* ------------------------------------------------------- program constants
encoder_max_length == 256

Ext == <<".", "m", "l", "p", "a", "c", "k", "a", "g", "e">>

ManifestJson == <<"M", "a", "n", "i", "f", "e", "s", "t", ".", "j", "s", "o", "n">>

sep == "/"

model_name == "unikei/distilbert-base-re-punctuate"

Punctuate == <<"P", "u", "n", "c", "t", "u", "a", "t", "e">>

\* ----------------------------------------------------------------- inputs
Alphabet == {"P", sep}

RECURSIVE StringsUpTo(_)
StringsUpTo(n) ==
    IF n = 0 THEN {<< >>}
    ELSE LET shorter == StringsUpTo(n - 1)
         IN  shorter \cup {Append(s, c) : s \in shorter, c \in Alphabet}

SavedNames == {Punctuate} \cup StringsUpTo(MaxNameLen)

\* a path from_pretrained can load, and one it cannot
ModelPaths == {model_name, "no/such/model"}

ValidModelPaths == {model_name}

\* members of the Conversion enumeration of conversion_utils
Conversion == {"NONE", "FLOAT16", "INT8"}

\* what a call does: return, raise ValueError, raise anything else
Outcomes == {"ok", "ValueError", "Error"}

\* key orders a tokenizer's BatchEncoding can have
TokenizerKeys ==
    { <<"input_ids", "attention_mask">>,
      <<"attention_mask", "input_ids">>,
      <<"input_ids", "token_type_ids", "attention_mask">>,
      <<"input_ids">> }

\* number of tokens the fixed sample text encodes to (vocabulary dependent)
SampleTokenCounts == {9, 38}

\* ------------------------------------------------------------------ state
VARIABLES
    pc,               \* statement about to run, or done / aborted / crashed
    conversion_type,  \* arguments of convert
    model_path,
    saved_name,
    model,            \* locals of convert_to_coreml
    tokenizer,
    tokenized,
    traced_model,
    outputs,
    mlpackage,
    coreml_model,     \* convert's local "model"
    new_model,        \* locals of convert
    saved_path,
    manifest_file,
    fs,               \* package directories on disk, by path
    printed,          \* what print() wrote
    raised,           \* the exception raised, if any
    calls             \* external calls made so far, in order

vars == <<pc, conversion_type, model_path, saved_name, model, tokenizer,
          tokenized, traced_model, outputs, mlpackage, coreml_model,
          new_model, saved_path, manifest_file, fs, printed, raised, calls>>

locals1 == <<model, tokenizer, tokenized, traced_model, outputs, mlpackage>>

locals2 == <<coreml_model, new_model, saved_path, manifest_file>>

args == <<conversion_type, model_path, saved_name>>

Unbound == [kind |-> "unbound"]

NoException == [type |-> "none", at |-> "none"]

EmptyFs == [p \in {} |-> Unbound]

Terminal == {"done", "aborted", "crashed"}

\* ------------------------------------------------------- pure helpers
Last(s) == s[Len(s)]

\* a join that forgets the separator
OsPathJoinNoSep(a, b) == a \o b

\* posixpath.join(a, b)
OsPathJoin(a, b) ==
    IF Len(b) > 0 /\ b[1] = sep THEN b
    ELSE IF Len(a) = 0 \/ Last(a) = sep THEN a \o b
    ELSE a \o <<sep>> \o b

\* a saved path that forgets the extension
SavedPathNoExt(name) == name

\* f"{saved_name}.mlpackage"
SavedPath(name) == name \o Ext

\* padding="max_length" without truncation: pad up to max_length, never cut
PaddedLength(n) == IF n > encoder_max_length THEN n ELSE encoder_max_length

\* the BatchEncoding: one (1, length) tensor per key, in the tokenizer's order
Tokenize(keys, n) ==
    [i \in 1..Len(keys) |-> [name |-> keys[i], shape |-> <<1, PaddedLength(n)>>]]

HasKey(enc, k) == \E i \in 1..Len(enc) : enc[i].name = k

GetItem(enc, k) == enc[CHOOSE i \in 1..Len(enc) : enc[i].name = k]

\* the example inputs handed to torch.jit.trace
TraceInputs(enc) == <<GetItem(enc, "input_ids"), GetItem(enc, "attention_mask")>>

\* declarations typed after the integer sample tensors
InputDeclsInt32(enc) ==
    [i \in 1..Len(enc) |->
        [name |-> enc[i].name, shape |-> enc[i].shape, dtype |-> "int32"]]

\* the list comprehension over tokenized.items()
InputDecls(enc) ==
    [i \in 1..Len(enc) |->
        [name |-> enc[i].name, shape |-> enc[i].shape, dtype |-> "float32"]]

\* the package is saved before it is post-processed
SuccessorSaveFirst(step) ==
    CASE step = "load_model"       -> "load_tokenizer"
      [] step = "load_tokenizer"   -> "tokenize"
      [] step = "tokenize"         -> "trace"
      [] step = "trace"            -> "output_decl"
      [] step = "output_decl"      -> "ct_convert"
      [] step = "ct_convert"       -> "save"
      [] step = "save"             -> "apply_conversion"
      [] step = "apply_conversion" -> "manifest"
      [] step = "manifest"         -> "done"

\* the manifest is rewritten before the package is saved
SuccessorManifestFirst(step) ==
    CASE step = "load_model"       -> "load_tokenizer"
      [] step = "load_tokenizer"   -> "tokenize"
      [] step = "tokenize"         -> "trace"
      [] step = "trace"            -> "output_decl"
      [] step = "output_decl"      -> "ct_convert"
      [] step = "ct_convert"       -> "apply_conversion"
      [] step = "apply_conversion" -> "manifest"
      [] step = "manifest"         -> "save"
      [] step = "save"             -> "done"

\* the script waits after saving and never reaches the manifest rewrite
SuccessorWaiting(step) ==
    CASE step = "load_model"       -> "load_tokenizer"
      [] step = "load_tokenizer"   -> "tokenize"
      [] step = "tokenize"         -> "trace"
      [] step = "trace"            -> "output_decl"
      [] step = "output_decl"      -> "ct_convert"
      [] step = "ct_convert"       -> "apply_conversion"
      [] step = "apply_conversion" -> "save"
      [] step = "save"             -> "waiting"
      [] step = "manifest"         -> "done"

\* the statement that follows each statement when it returns
Successor(step) ==
    CASE step = "load_model"       -> "load_tokenizer"
      [] step = "load_tokenizer"   -> "tokenize"
      [] step = "tokenize"         -> "trace"
      [] step = "trace"            -> "output_decl"
      [] step = "output_decl"      -> "ct_convert"
      [] step = "ct_convert"       -> "apply_conversion"
      [] step = "apply_conversion" -> "save"
      [] step = "save"             -> "manifest"
      [] step = "manifest"         -> "done"

\* an except clause that catches every exception of the guarded call
CaughtAny(step, type) == step = "apply_conversion"

\* try: ... except ValueError around the apply_conversion call only
Caught(step, type) == step = "apply_conversion" /\ type = "ValueError"

\* an except clause that prints and falls through to the save
ExceptTargetFallThrough == "save"

\* the except clause ends in "return"
ExceptTarget == "aborted"

\* saving the converted model without its post-processing
SavedObjectUnprocessed(converted, post) == converted

\* the object whose save method is called
SavedObject(converted, post) == post

\* conversion_utils.apply_conversion: the post-processed model
apply_conversion(m, t) == [kind |-> "converted", base |-> m, conversion |-> t]

\* what save() writes as the manifest's name before any rewrite
DefaultManifestName == <<"m", "o", "d", "e", "l">>

ManifestExists(disk, file) ==
    \E p \in DOMAIN disk : OsPathJoin(p, ManifestJson) = file

\* conversion_utils.update_manifest_model_name: rewrite the name field
update_manifest_model_name(disk, file, name) ==
    [p \in DOMAIN disk |->
        IF OsPathJoin(p, ManifestJson) = file
        THEN [disk[p] EXCEPT !.manifest = [name |-> name]]
        ELSE disk[p]]

\* ------------------------------------------------------- control transfer
Call(fn, a) == calls' = Append(calls, [fn |-> fn, args |-> a])

Return(step) ==
    /\ pc' = Successor(step)
    /\ UNCHANGED <<printed, raised>>

Raise(step, type) ==
    /\ raised' = [type |-> type, at |-> step]
    /\ IF Caught(step, type)
       THEN /\ printed' = Append(printed, type)
            /\ pc' = ExceptTarget
       ELSE /\ pc' = "crashed"
            /\ UNCHANGED printed

\* ------------------------------------------------------------------- Init
Init ==
    /\ pc = "load_model"
    /\ conversion_type \in Conversion
    /\ model_path \in ModelPaths
    /\ saved_name \in SavedNames
    /\ model = Unbound
    /\ tokenizer = Unbound
    /\ tokenized = << >>
    /\ traced_model = Unbound
    /\ outputs = << >>
    /\ mlpackage = Unbound
    /\ coreml_model = Unbound
    /\ new_model = Unbound
    /\ saved_path = << >>
    /\ manifest_file = << >>
    /\ fs = EmptyFs
    /\ printed = << >>
    /\ raised = NoException
    /\ calls = << >>

\* ---------------------------------------------------------------- actions
\* DistilBertForTokenClassification.from_pretrained(...).eval()
LoadModel ==
    /\ pc = "load_model"
    /\ Call("load_model", [path |-> model_path])
    /\ \E o \in Outcomes :
         \/ /\ o = "ok"
            /\ model_path \in ValidModelPaths
            /\ model' = [kind |-> "torch", path |-> model_path,
                         return_dict |-> FALSE, torchscript |-> TRUE,
                         training |-> FALSE]
            /\ Return("load_model")
         \/ /\ o # "ok"
            /\ Raise("load_model", o)
            /\ UNCHANGED model
    /\ UNCHANGED <<args, tokenizer, tokenized, traced_model, outputs,
                   mlpackage, locals2, fs>>

\* DistilBertTokenizerFast.from_pretrained(model_path)
LoadTokenizer ==
    /\ pc = "load_tokenizer"
    /\ Call("load_tokenizer", [path |-> model_path])
    /\ \E o \in Outcomes :
         \/ /\ o = "ok"
            /\ tokenizer' = [kind |-> "tokenizer", path |-> model_path]
            /\ Return("load_tokenizer")
         \/ /\ o # "ok"
            /\ Raise("load_tokenizer", o)
            /\ UNCHANGED tokenizer
    /\ UNCHANGED <<args, model, tokenized, traced_model, outputs,
                   mlpackage, locals2, fs>>

\* tokenizer([...], padding="max_length", max_length=encoder_max_length, ...)
TokenizeSample ==
    /\ pc = "tokenize"
    /\ Call("tokenize", [tokenizer |-> tokenizer,
                         max_length |-> encoder_max_length])
    /\ \E o \in Outcomes :
         \/ /\ o = "ok"
            /\ \E keys \in TokenizerKeys, n \in SampleTokenCounts :
                 tokenized' = Tokenize(keys, n)
            /\ Return("tokenize")
         \/ /\ o # "ok"
            /\ Raise("tokenize", o)
            /\ UNCHANGED tokenized
    /\ UNCHANGED <<args, model, tokenizer, traced_model, outputs,
                   mlpackage, locals2, fs>>

\* torch.jit.trace(model, (tokenized["input_ids"], tokenized["attention_mask"]))
Trace ==
    /\ pc = "trace"
    /\ IF HasKey(tokenized, "input_ids") /\ HasKey(tokenized, "attention_mask")
       THEN /\ Call("trace", [model |-> model, example |-> TraceInputs(tokenized)])
            /\ \E o \in Outcomes :
                 \/ /\ o = "ok"
                    /\ traced_model' = [kind |-> "traced", model |-> model,
                                        example |-> TraceInputs(tokenized)]
                    /\ Return("trace")
                 \/ /\ o # "ok"
                    /\ Raise("trace", o)
                    /\ UNCHANGED traced_model
       ELSE \* the subscript raises KeyError before trace is called
            /\ Raise("trace", "Error")
            /\ UNCHANGED <<traced_model, calls>>
    /\ UNCHANGED <<args, model, tokenizer, tokenized, outputs, mlpackage,
                   locals2, fs>>

\* outputs = [ct.TensorType(name="output")]
OutputDecl ==
    /\ pc = "output_decl"
    /\ Call("output_decl", [name |-> "output"])
    /\ \E o \in Outcomes :
         \/ /\ o = "ok"
            /\ outputs' = <<[name |-> "output"]>>
            /\ Return("output_decl")
         \/ /\ o # "ok"
            /\ Raise("output_decl", o)
            /\ UNCHANGED outputs
    /\ UNCHANGED <<args, model, tokenizer, tokenized, traced_model,
                   mlpackage, locals2, fs>>

\* mlpackage = ct.convert(traced_model, ...); return mlpackage;
\* model = convert_to_coreml(model_path)
CtConvert ==
    /\ pc = "ct_convert"
    /\ Call("ct_convert", [traced |-> traced_model,
                           inputs |-> InputDecls(tokenized),
                           outputs |-> outputs])
    /\ \E o \in Outcomes :
         \/ /\ o = "ok"
            \* the converter rejects a declaration count that differs from
            \* the number of traced inputs
            /\ Len(InputDecls(tokenized)) = Len(traced_model.example)
            /\ mlpackage' = [kind |-> "mlpackage", traced |-> traced_model,
                             inputs |-> InputDecls(tokenized),
                             outputs |-> outputs,
                             convert_to |-> "mlprogram",
                             compute_units |-> "ALL",
                             minimum_deployment_target |-> "iOS18"]
            /\ coreml_model' = mlpackage'
            /\ Return("ct_convert")
         \/ /\ o # "ok"
            /\ Raise("ct_convert", o)
            /\ UNCHANGED <<mlpackage, coreml_model>>
    /\ UNCHANGED <<args, model, tokenizer, tokenized, traced_model, outputs,
                   new_model, saved_path, manifest_file, fs>>

\* try: new_model = apply_conversion(model, conversion_type)
\* except ValueError as error: print(error); return
ApplyConversion ==
    /\ pc = "apply_conversion"
    /\ Call("apply_conversion", [model |-> coreml_model,
                                 conversion_type |-> conversion_type])
    /\ \E o \in Outcomes :
         \/ /\ o = "ok"
            /\ new_model' = apply_conversion(coreml_model, conversion_type)
            /\ Return("apply_conversion")
         \/ /\ o # "ok"
            /\ Raise("apply_conversion", o)
            /\ UNCHANGED new_model
    /\ UNCHANGED <<args, locals1, coreml_model, saved_path, manifest_file, fs>>

\* saved_path = f"{saved_name}.mlpackage"; new_model.save(saved_path)
Save ==
    /\ pc = "save"
    /\ saved_path' = SavedPath(saved_name)
    /\ Call("save", [self |-> SavedObject(coreml_model, new_model),
                     path |-> saved_path'])
    /\ \E o \in Outcomes :
         \/ /\ o = "ok"
            /\ fs' = [p \in DOMAIN fs \cup {saved_path'} |->
                        IF p = saved_path'
                        THEN [model |-> SavedObject(coreml_model, new_model),
                              manifest |-> [name |-> DefaultManifestName]]
                        ELSE fs[p]]
            /\ Return("save")
         \/ /\ o # "ok"
            /\ Raise("save", o)
            /\ UNCHANGED fs
    /\ UNCHANGED <<args, locals1, coreml_model, new_model, manifest_file>>

\* manifest_file = os.path.join(saved_path, "Manifest.json")
\* update_manifest_model_name(manifest_file, saved_name)
UpdateManifest ==
    /\ pc = "manifest"
    /\ manifest_file' = OsPathJoin(saved_path, ManifestJson)
    /\ Call("manifest", [file |-> manifest_file', name |-> saved_name])
    /\ \E o \in Outcomes :
         \/ /\ o = "ok"
            /\ ManifestExists(fs, manifest_file')
            /\ fs' = update_manifest_model_name(fs, manifest_file', saved_name)
            /\ Return("manifest")
         \/ /\ o # "ok"
            /\ Raise("manifest", o)
            /\ UNCHANGED fs
    /\ UNCHANGED <<args, locals1, coreml_model, new_model, saved_path>>

Next ==
    \/ LoadModel
    \/ LoadTokenizer
    \/ TokenizeSample
    \/ Trace
    \/ OutputDecl
    \/ CtConvert
    \/ ApplyConversion
    \/ Save
    \/ UpdateManifest

Spec == Init /\ [][Next]_vars

\* the interpreter always runs the next statement, and every call returns
\* or raises
FairSpec == Spec /\ WF_vars(Next)

TypeOK ==
    /\ pc \in {"load_model", "load_tokenizer", "tokenize", "trace",
               "output_decl", "ct_convert", "apply_conversion", "save",
               "manifest"} \cup Terminal
    /\ Len(calls) <= 9
    /\ Cardinality(DOMAIN fs) <= 1

\* ------------------------------------------------------------- properties
\* the steps the script makes, in program order
StepOrder == <<"load_model", "load_tokenizer", "tokenize", "trace",
               "ct_convert", "apply_conversion", "save", "manifest">>

\* every statement of the script, in program order
StatementOrder == <<"load_model", "load_tokenizer", "tokenize", "trace",
                    "output_decl", "ct_convert", "apply_conversion", "save",
                    "manifest">>

StatementIndex(fn) ==
    CHOOSE i \in 1..Len(StatementOrder) : StatementOrder[i] = fn

IsStep(c) == \E i \in 1..Len(StepOrder) : StepOrder[i] = c.fn

\* the calls of the log that are steps of StepOrder
Steps == SelectSeq(calls, IsStep)

Called(fn) == \E i \in 1..Len(calls) : calls[i].fn = fn

\* the step has returned: the value it produces is bound
Completed(fn) ==
    CASE fn = "load_model"       -> model # Unbound
      [] fn = "load_tokenizer"   -> tokenizer # Unbound
      [] fn = "tokenize"         -> tokenized # << >>
      [] fn = "trace"            -> traced_model # Unbound
      [] fn = "ct_convert"       -> mlpackage # Unbound /\ coreml_model = mlpackage
      [] fn = "apply_conversion" -> new_model # Unbound
      [] fn = "save"             -> saved_path \in DOMAIN fs
      [] fn = "manifest"         -> pc = "done"

HandledValueError ==
    raised = [type |-> "ValueError", at |-> "apply_conversion"]

UnhandledFailure == raised.type # "none" /\ ~HandledValueError

\* C1: when convert returns after every step succeeded on a valid model
\* path, a package exists at saved_name + ".mlpackage" and its manifest's
\* name field equals saved_name.
C1_PackageAndManifestName ==
    pc = "done" =>
        /\ model_path \in ValidModelPaths
        /\ raised = NoException
        /\ (saved_name \o Ext) \in DOMAIN fs
        /\ fs[saved_name \o Ext].manifest.name = saved_name

C1_Witness ==
    /\ pc = "done"
    /\ conversion_type = "NONE"
    /\ model_path = model_name
    /\ saved_name = Punctuate

\* C2: a ValueError raised by apply_conversion is caught and printed, and
\* convert returns with no output: save is never called, nothing is written
\* to disk and the manifest rewrite is never invoked.
C2_ValueErrorAborts ==
    HandledValueError =>
        /\ pc = "aborted"
        /\ printed = <<"ValueError">>
        /\ fs = EmptyFs
        /\ ~Called("save")
        /\ ~Called("manifest")

C2_Witness ==
    /\ pc = "aborted"
    /\ HandledValueError
    /\ conversion_type = "INT8"

\* C3: every failure other than a ValueError of apply_conversion propagates
\* unhandled: nothing is printed, the run is over, no step after the failing
\* one has run and no step has run twice.
C3_OtherFailuresPropagate ==
    UnhandledFailure =>
        /\ pc = "crashed"
        /\ printed = << >>
        /\ \A i \in 1..Len(calls) :
             StatementIndex(calls[i].fn) <= StatementIndex(raised.at)
        /\ \A i, j \in 1..Len(calls) : calls[i].fn = calls[j].fn => i = j

C3_Witness ==
    /\ pc = "crashed"
    /\ raised = [type |-> "ValueError", at |-> "ct_convert"]

\* C4: the steps occur in the fixed order load model, load tokenizer,
\* tokenize, trace, format conversion, apply_conversion, save, manifest
\* rewrite; each at most once, and each only after every earlier step has
\* completed successfully.
C4_FixedOrder ==
    /\ Len(Steps) <= Len(StepOrder)
    /\ \A i \in 1..Len(Steps) : Steps[i].fn = StepOrder[i]
    /\ \A i, j \in 1..Len(Steps) : i < j => Completed(Steps[i].fn)
    /\ raised.type # "none" => pc \in Terminal

C4_Witness ==
    /\ Len(Steps) = Len(StepOrder)
    /\ pc = "done"
    /\ conversion_type = "FLOAT16"

\* C5: the package is saved at exactly saved_name + ".mlpackage", and the
\* manifest rewrite is given the file "Manifest.json" directly inside that
\* path together with the unmodified saved_name.
C5_PathConvention ==
    \A i \in 1..Len(calls) :
        /\ calls[i].fn = "save" => calls[i].args.path = saved_name \o Ext
        /\ calls[i].fn = "manifest" =>
             /\ calls[i].args.file = saved_name \o Ext \o <<"/">> \o ManifestJson
             /\ calls[i].args.name = saved_name

C5_Witness ==
    /\ Called("manifest")
    /\ saved_name = <<"P", "/">>

RunCompleted ==
    /\ pc = "done"
    /\ raised = NoException
    /\ printed = << >>
    /\ saved_path \in DOMAIN fs
    /\ fs[saved_path].manifest.name = saved_name

RunAborted ==
    /\ pc = "aborted"
    /\ HandledValueError
    /\ printed = <<"ValueError">>
    /\ fs = EmptyFs

RunCrashed ==
    /\ pc = "crashed"
    /\ UnhandledFailure

\* C6: every run terminates, in exactly one of three outcomes: completed
\* (package saved, manifest rewritten), aborted early (ValueError printed,
\* no output) or terminated by an unhandled failure; no step is repeated.
C6_Terminates ==
    /\ <>[](pc \in Terminal)
    /\ [](pc \in Terminal => (RunCompleted \/ RunAborted \/ RunCrashed))
    /\ [](\A i, j \in 1..Len(calls) : calls[i].fn = calls[j].fn => i = j)

C6_Witness ==
    /\ pc = "crashed"
    /\ raised = [type |-> "Error", at |-> "load_model"]
    /\ model_path \notin ValidModelPaths

\* C7: the manifest rewrite is attempted only after save has returned, and
\* there is no rollback: when the rewrite fails the package written by save
\* is still on disk exactly as save left it, and the failure propagates.
C7_NoRollback ==
    /\ Called("manifest") =>
         /\ Called("save")
         /\ saved_path \in DOMAIN fs
    /\ (raised.type # "none" /\ raised.at = "manifest") =>
         /\ pc = "crashed"
         /\ saved_path \in DOMAIN fs
         /\ fs[saved_path] = [model |-> new_model,
                              manifest |-> [name |-> DefaultManifestName]]

C7_Witness ==
    /\ pc = "crashed"
    /\ raised.at = "manifest"
    /\ saved_path \in DOMAIN fs

\* the arguments of a call, written without conversion_type
ArgsWithoutConversionType(fn) ==
    CASE fn = "load_model"     -> [path |-> model_path]
      [] fn = "load_tokenizer" -> [path |-> model_path]
      [] fn = "tokenize"       -> [tokenizer |-> [kind |-> "tokenizer",
                                                  path |-> model_path],
                                   max_length |-> encoder_max_length]
      [] fn = "trace"          -> [model |-> model,
                                   example |-> TraceInputs(tokenized)]
      [] fn = "output_decl"    -> [name |-> "output"]
      [] fn = "ct_convert"     -> [traced |-> traced_model,
                                   inputs |-> InputDecls(tokenized),
                                   outputs |-> <<[name |-> "output"]>>]
      [] fn = "manifest"       -> [file |-> OsPathJoin(SavedPath(saved_name),
                                                       ManifestJson),
                                   name |-> saved_name]

\* C8: the model that is saved is apply_conversion of the model returned by
\* convert_to_coreml(model_path) and the caller's conversion_type, never the
\* converted model itself; conversion_type reaches no other step.
C8_SavedModelIsPostProcessed ==
    /\ \A i \in 1..Len(calls) :
         /\ calls[i].fn = "save" =>
              /\ calls[i].args.self = apply_conversion(mlpackage, conversion_type)
              /\ mlpackage.traced.model.path = model_path
              /\ calls[i].args.path = SavedPath(saved_name)
         /\ calls[i].fn = "apply_conversion" =>
              calls[i].args = [model |-> mlpackage,
                               conversion_type |-> conversion_type]
         /\ calls[i].fn \notin {"save", "apply_conversion"} =>
              calls[i].args = ArgsWithoutConversionType(calls[i].fn)
    /\ \A p \in DOMAIN fs :
         fs[p].model = apply_conversion(mlpackage, conversion_type)

C8_Witness ==
    /\ Called("save")
    /\ saved_path \in DOMAIN fs
    /\ conversion_type = "INT8"

Names(enc) == [i \in 1..Len(enc) |-> enc[i].name]

\* C9: the converter gets one input declaration per entry of the tokenizer
\* output, in the tokenizer's order, named by the key, shaped as the sample
\* tensor and typed float32; when the tokenizer returns input_ids then
\* attention_mask the declarations match the traced inputs in number and
\* order.
C9_InputDeclarations ==
    \A i \in 1..Len(calls) :
        calls[i].fn = "ct_convert" =>
            LET decls == calls[i].args.inputs
                traced == calls[i].args.traced.example
            IN  /\ Len(decls) = Len(tokenized)
                /\ \A k \in 1..Len(decls) :
                     /\ decls[k].name = tokenized[k].name
                     /\ decls[k].shape = tokenized[k].shape
                     /\ decls[k].dtype = "float32"
                /\ Names(tokenized) = <<"input_ids", "attention_mask">> =>
                     /\ Len(decls) = 2
                     /\ Len(traced) = 2
                     /\ \A k \in 1..2 :
                          /\ decls[k].name = traced[k].name
                          /\ decls[k].shape = traced[k].shape

C9_Witness ==
    /\ Called("ct_convert")
    /\ Names(tokenized) = <<"input_ids", "attention_mask">>
    /\ mlpackage # Unbound

\* the declarations and the traced inputs can disagree in order
C9_OrderCanDiffer ==
    /\ Called("ct_convert")
    /\ Names(tokenized) = <<"attention_mask", "input_ids">>

====
